---- MODULE Spec2Model ----
(***************************************************************************)
(* State-machine model of the SelfPerformanceEngine                        *)
(* (backend/src/ai/SelfPerformanceEngine.ts): the metrics store, the       *)
(* snapshot sampler, the adaptive router and the alerting sink, together   *)
(* with the runtime's interval timers and clock that drive them; of the    *)
(* request handlers that report to it; of the music and video generation   *)
(* services; and of the frontend's error boundary and API client.          *)
(***************************************************************************)
EXTENDS Integers, Sequences, FiniteSets, TLC

VARIABLES
    snapshots,        \* private snapshots: PerformanceSnapshot[]
    modelMetrics,     \* private modelMetrics: Record<string, ModelMetrics>
    activeRequests,   \* private activeRequests
    responseTimes,    \* private responseTimes: number[]
    errors,           \* private errors: number[] (timestamps)
    monitorInterval,  \* private monitorInterval: timer handle or null
    timers,           \* the runtime's live intervals: handle -> next due time
    nextTimerId,      \* the handle the runtime's next setInterval returns
    now,              \* Date.now(), in ms
    warnings,         \* console.warn lines written by the last call
    ret,              \* the last call: [op, arg, val (its return value)]
    handlers,         \* the request handlers that report to the engine
    gen,              \* the generation request in progress, or the last one
    boundary,         \* the ErrorBoundary component and its page
    client            \* the API client: localStorage, location, its request

vars == <<snapshots, modelMetrics, activeRequests, responseTimes, errors,
          monitorInterval, timers, nextTimerId, now, warnings, ret,
          handlers, gen, boundary, client>>

\* What the engine's methods never touch
outside == <<gen, boundary, client>>

engine == <<snapshots, modelMetrics, activeRequests, responseTimes, errors,
            monitorInterval>>

-----------------------------------------------------------------------------
(* Program constants *)

MAX_SNAPSHOTS == 1000

MONITOR_INTERVAL_MS == 10000

MAX_RESPONSE_TIMES == 100

ERROR_WINDOW_MS == 60000

HISTORY_SLICE == 50

RECENT_SLICE == 6

MIN_RECENT == 3

CPU_WARN_PCT == 85

MEM_WARN_PCT == 85

ERROR_WARN == 5

LOW_PERF_MIN_CALLS == 5

LOW_PERF_RATE_PCT == 70

NULL == 0

-----------------------------------------------------------------------------
(* Helpers *)

Max(a, b) == IF a > b THEN a ELSE b

Last(s) == s[Len(s)]

RECURSIVE SumSeq(_)
SumSeq(s) == IF s = <<>> THEN 0 ELSE Head(s) + SumSeq(Tail(s))

RECURSIVE GCD(_, _)
GCD(a, b) == IF b = 0 THEN a ELSE GCD(b, a % b)

\* Math.round of the non-negative quotient n / d (d > 0): half rounds up.
MathRound(n, d) == (2 * n + d) \div (2 * d)

\* The number s / t (t > 0) as a fraction in lowest terms: equal quotients
\* are equal values, as the doubles the division yields are.
Quotient(s, t) == LET g == GCD(s, t) IN <<s \div g, t \div g>>

\* Variant: the first n elements, array.slice(0, n)
SliceLast_Oldest(s, n) == IF Len(s) <= n THEN s ELSE SubSeq(s, 1, n)

\* array.slice(-n)
SliceLast(s, n) == IF Len(s) <= n THEN s ELSE SubSeq(s, Len(s) - n + 1, Len(s))

Range(s) == {s[i] : i \in DOMAIN s}

-----------------------------------------------------------------------------
(* Metrics store *)

\* The entry trackModelCall creates for an unseen model.
NewModelMetrics == [totalCalls |-> 0, successCalls |-> 0, totalTimeMs |-> 0, lastUsed |-> 0]

HasMetrics(m) == m \in DOMAIN modelMetrics

\* Variant: the decrement without Math.max(0, ...)
DecrementActive_NoFloor(n) == n - 1

\* this.activeRequests = Math.max(0, this.activeRequests - 1)
DecrementActive(n) == Max(0, n - 1)

\* Variant: pop() in place of shift(), dropping the newest sample
PushResponseTime_DropNewest(rt, d) ==
    LET pushed == Append(rt, d)
    IN  IF Len(pushed) > MAX_RESPONSE_TIMES
        THEN SubSeq(pushed, 1, Len(pushed) - 1) ELSE pushed

\* responseTimes.push(d); if (length > 100) responseTimes.shift()
PushResponseTime(rt, d) ==
    LET pushed == Append(rt, d)
    IN  IF Len(pushed) > MAX_RESPONSE_TIMES THEN Tail(pushed) ELSE pushed

\* Variant: the filter written t >= cutoff
PushAndPruneErrors_KeepsCutoff(errs, success, t) ==
    LET pushed == IF ~success THEN Append(errs, t) ELSE errs
        cutoff == t - ERROR_WINDOW_MS
    IN  SelectSeq(pushed, LAMBDA e : e >= cutoff)

\* if (!success) errors.push(Date.now()); errors = errors.filter(t => t > cutoff)
PushAndPruneErrors(errs, success, t) ==
    LET pushed == IF ~success THEN Append(errs, t) ELSE errs
        cutoff == t - ERROR_WINDOW_MS
    IN  SelectSeq(pushed, LAMBDA e : e > cutoff)

\* Variant: successCalls++ whatever the outcome
CountSuccess_Always(n, success) == n + 1

\* if (success) successCalls++
CountSuccess(n, success) == IF success THEN n + 1 ELSE n

\* Variant: totalCalls++ in the else branch of if (success)
CountTotal_OnFailure(n, success) == IF success THEN n ELSE n + 1

\* totalCalls++
CountTotal(n, success) == n + 1

\* Variant: the entry is written from a fresh record at every call, so the
\* counts of the earlier calls are lost
RecordModelCall_Overwrite(mm, model, success, durationMs) ==
    [x \in DOMAIN mm \cup {model} |->
        IF x = model
        THEN [totalCalls   |-> CountTotal(NewModelMetrics.totalCalls, success),
              successCalls |-> CountSuccess(NewModelMetrics.successCalls, success),
              totalTimeMs  |-> durationMs,
              lastUsed     |-> now]
        ELSE mm[x]]

\* modelMetrics after trackModelCall(model, success, durationMs)
RecordModelCall(mm, model, success, durationMs) ==
    LET old == IF model \in DOMAIN mm THEN mm[model] ELSE NewModelMetrics
    IN  [x \in DOMAIN mm \cup {model} |->
            IF x = model
            THEN [totalCalls   |-> CountTotal(old.totalCalls, success),
                  successCalls |-> CountSuccess(old.successCalls, success),
                  totalTimeMs  |-> old.totalTimeMs + durationMs,
                  lastUsed     |-> now]
            ELSE mm[x]]

trackRequestStart ==
    /\ activeRequests' = activeRequests + 1
    /\ warnings' = {}
    /\ ret' = [op |-> "trackRequestStart", arg |-> "none", val |-> "void"]
    /\ UNCHANGED <<snapshots, modelMetrics, responseTimes, errors,
                   monitorInterval, timers, nextTimerId, now>>
    /\ UNCHANGED outside

\* trackRequestStart called by none of the handlers
TrackRequestStart == trackRequestStart /\ UNCHANGED handlers

trackRequestEnd(durationMs, success) ==
    /\ activeRequests' = DecrementActive(activeRequests)
    /\ responseTimes' = PushResponseTime(responseTimes, durationMs)
    /\ errors' = PushAndPruneErrors(errors, success, now)
    /\ warnings' = {}
    /\ ret' = [op |-> "trackRequestEnd",
               arg |-> [durationMs |-> durationMs, success |-> success],
               val |-> "void"]
    /\ UNCHANGED <<snapshots, modelMetrics, monitorInterval, timers,
                   nextTimerId, now>>
    /\ UNCHANGED outside

\* trackRequestEnd called by none of the handlers
TrackRequestEnd(durationMs, success) == trackRequestEnd(durationMs, success) /\ UNCHANGED handlers

trackModelCall(model, success, durationMs) ==
    /\ modelMetrics' = RecordModelCall(modelMetrics, model, success, durationMs)
    /\ warnings' = {}
    /\ ret' = [op |-> "trackModelCall",
               arg |-> [model |-> model, success |-> success, durationMs |-> durationMs],
               val |-> "void"]
    /\ UNCHANGED <<snapshots, activeRequests, responseTimes, errors,
                   monitorInterval, timers, nextTimerId, now>>
    /\ UNCHANGED outside

\* trackModelCall called by none of the handlers
TrackModelCall(model, success, durationMs) == trackModelCall(model, success, durationMs) /\ UNCHANGED handlers

-----------------------------------------------------------------------------
(* Adaptive router *)

Tasks == {"music", "video", "image", "voice"}

modelsByTask ==
    [music |-> <<"suno-v3.5", "eleven-music-v2", "musicgen-large">>,
     video |-> <<"kling-3.0", "veo-3", "runway-gen3">>,
     image |-> <<"flux-1", "sdxl", "dalle-3">>,
     voice |-> <<"eleven-v3", "eleven-v2", "whisper">>]

\* totalCalls || 1
CallsOrOne(n) == IF n = 0 THEN 1 ELSE n

\* Variant: the comparator returning rateA - rateB
CompareRates_Ascending(a, b) ==
    LET ma == modelMetrics[a]
        mb == modelMetrics[b]
    IN  ma.successCalls * mb.totalCalls - mb.successCalls * ma.totalCalls

\* The sign of the comparator's result rateB - rateA, the rates being
\* successCalls / (totalCalls || 1): the difference of the cross products,
\* both denominators being positive.
CompareRates(a, b) ==
    LET ma == modelMetrics[a]
        mb == modelMetrics[b]
    IN  mb.successCalls * CallsOrOne(ma.totalCalls)
          - ma.successCalls * CallsOrOne(mb.totalCalls)

Front(s) == SubSeq(s, 1, Len(s) - 1)

\* Variant: a sort that moves an element in front of its equals
RECURSIVE InsertSorted_Unstable(_, _)
InsertSorted_Unstable(s, x) ==
    IF s = <<>> \/ CompareRates(s[Len(s)], x) < 0
    THEN Append(s, x)
    ELSE Append(InsertSorted_Unstable(Front(s), x), s[Len(s)])

\* Array.prototype.sort is stable: an element moves in front of exactly the
\* elements the comparator puts after it.
RECURSIVE InsertSorted(_, _)
InsertSorted(s, x) ==
    IF s = <<>> \/ CompareRates(Last(s), x) <= 0
    THEN Append(s, x)
    ELSE Append(InsertSorted(Front(s), x), Last(s))

RECURSIVE SortByRate(_)
SortByRate(s) ==
    IF s = <<>> THEN <<>> ELSE InsertSorted(SortByRate(Front(s)), Last(s))

\* Variant: the router ranks every model with metrics, the candidates first
FilterKnown_AnyModel(candidates) ==
    SelectSeq(candidates \o modelsByTask["music"] \o modelsByTask["video"]
                  \o modelsByTask["image"] \o modelsByTask["voice"],
              HasMetrics)

\* candidates.filter(m => this.modelMetrics[m])
FilterKnown(candidates) == SelectSeq(candidates, HasMetrics)

\* Variant: a fallback to the last candidate
FirstOr_Last(sorted, candidates) ==
    IF sorted # <<>> THEN sorted[1] ELSE candidates[Len(candidates)]

\* Variant: no || candidates[0]
FirstOr_NoFallback(sorted, candidates) ==
    IF sorted # <<>> THEN sorted[1] ELSE "undefined"

\* sorted[0] || candidates[0]
FirstOr(sorted, candidates) ==
    IF sorted # <<>> THEN sorted[1]
    ELSE IF candidates # <<>> THEN candidates[1] ELSE "undefined"

getBestModel(taskType) ==
    LET candidates == modelsByTask[taskType]
    IN  FirstOr(SortByRate(FilterKnown(candidates)), candidates)

\* Variant: the router registers the model it returns, with no calls yet
GetBestModel_Registers(taskType) ==
    /\ ret' = [op |-> "getBestModel", arg |-> taskType, val |-> getBestModel(taskType)]
    /\ warnings' = {}
    /\ modelMetrics' =
          [m \in DOMAIN modelMetrics \cup {getBestModel(taskType)} |->
              IF m \in DOMAIN modelMetrics THEN modelMetrics[m]
              ELSE [totalCalls |-> 0, successCalls |-> 0, totalTimeMs |-> 0, lastUsed |-> now]]
    /\ UNCHANGED <<snapshots, activeRequests, responseTimes, errors,
                   monitorInterval, timers, nextTimerId, now>>
    /\ UNCHANGED <<handlers, outside>>

GetBestModel(taskType) ==
    /\ ret' = [op |-> "getBestModel", arg |-> taskType, val |-> getBestModel(taskType)]
    /\ warnings' = {}
    /\ UNCHANGED <<snapshots, modelMetrics, activeRequests, responseTimes, errors,
                   monitorInterval, timers, nextTimerId, now>>
    /\ UNCHANGED <<handlers, outside>>

-----------------------------------------------------------------------------
(* Snapshot sampler.  A host reading is what os.cpus(), os.totalmem() and  *)
(* os.freemem() return: [cpus: <<[idle, busy], ...>>, totalMB, freeMB].    *)

NaN == -1

\* The sum over the cores of busy / (idle + busy), as <<numerator, denominator>>.
RECURSIVE BusySum(_)
BusySum(cpus) ==
    IF cpus = <<>> THEN <<0, 1>>
    ELSE LET c == Head(cpus)
             r == BusySum(Tail(cpus))
             total == c.idle + c.busy
         IN  <<c.busy * r[2] + r[1] * total, total * r[2]>>

\* Math.round(cpuUsage * 10) / 10, in tenths of a percent; NaN when there is
\* no core or a core's times add up to 0 (0 / 0).
CpuUsage(cpus) ==
    IF cpus = <<>> \/ \E i \in DOMAIN cpus : cpus[i].idle + cpus[i].busy = 0
    THEN NaN
    ELSE LET r == BusySum(cpus)
         IN  MathRound(1000 * r[1], r[2] * Len(cpus))

AvgResponseTime(rt) == IF Len(rt) > 0 THEN MathRound(SumSeq(rt), Len(rt)) ELSE 0

\* Variant: the share of failed calls
SuccessRate_FailureShare(metrics) ==
    IF metrics.totalCalls > 0
    THEN Quotient(metrics.totalCalls - metrics.successCalls, metrics.totalCalls)
    ELSE <<0, 1>>

SuccessRate(metrics) ==
    IF metrics.totalCalls > 0
    THEN Quotient(metrics.successCalls, metrics.totalCalls)
    ELSE <<0, 1>>

\* errorRate: this.errors.length
ErrorRate(errs) == Len(errs)

NewSnapshot(host) ==
    [timestamp         |-> now,
     cpuUsage          |-> CpuUsage(host.cpus),
     memoryUsedMB      |-> host.totalMB - host.freeMB,
     memoryTotalMB     |-> host.totalMB,
     activeRequests    |-> activeRequests,
     avgResponseTimeMs |-> AvgResponseTime(responseTimes),
     errorRate         |-> ErrorRate(errors),
     modelSuccessRates |-> [m \in DOMAIN modelMetrics |-> SuccessRate(modelMetrics[m])]]

\* Variant: the eviction test written length < MAX_SNAPSHOTS
PushSnapshot_EvictBelowCap(snaps, snapshot) ==
    LET pushed == Append(snaps, snapshot)
    IN  IF Len(pushed) < MAX_SNAPSHOTS THEN Tail(pushed) ELSE pushed

\* Variant: every snapshot holds the one success-rate map, which the capture
\* refills
PushSnapshot_SharedRates(snaps, snapshot) ==
    LET shared == [i \in 1..Len(snaps) |->
                      [snaps[i] EXCEPT !.modelSuccessRates = snapshot.modelSuccessRates]]
        pushed == Append(shared, snapshot)
    IN  IF Len(pushed) > MAX_SNAPSHOTS THEN Tail(pushed) ELSE pushed

\* snapshots.push(snapshot); if (length > MAX_SNAPSHOTS) snapshots.shift()
PushSnapshot(snaps, snapshot) ==
    LET pushed == Append(snaps, snapshot)
    IN  IF Len(pushed) > MAX_SNAPSHOTS THEN Tail(pushed) ELSE pushed

\* The history after captureSnapshot() on the given host reading.
captureSnapshot(host) == PushSnapshot(snapshots, NewSnapshot(host))

GetCurrentMetrics(host) ==
    /\ snapshots' = captureSnapshot(host)
    /\ ret' = [op |-> "getCurrentMetrics", arg |-> "none", val |-> NewSnapshot(host)]
    /\ warnings' = {}
    /\ UNCHANGED <<modelMetrics, activeRequests, responseTimes, errors,
                   monitorInterval, timers, nextTimerId, now>>
    /\ UNCHANGED <<handlers, outside>>

GetHistory ==
    /\ ret' = [op |-> "getHistory", arg |-> "none", val |-> SliceLast(snapshots, HISTORY_SLICE)]
    /\ warnings' = {}
    /\ UNCHANGED <<snapshots, modelMetrics, activeRequests, responseTimes, errors,
                   monitorInterval, timers, nextTimerId, now>>
    /\ UNCHANGED <<handlers, outside>>

-----------------------------------------------------------------------------
(* Alerting sink *)

Warning(kind, models) == [kind |-> kind, models |-> models]

\* Variant: the call-count test written totalCalls >= 5
LowPerformingModels_FromFive(mm) ==
    {m \in DOMAIN mm :
        /\ mm[m].totalCalls >= LOW_PERF_MIN_CALLS
        /\ 100 * mm[m].successCalls < LOW_PERF_RATE_PCT * mm[m].totalCalls}

LowPerformingModels(mm) ==
    {m \in DOMAIN mm :
        /\ mm[m].totalCalls > LOW_PERF_MIN_CALLS
        /\ 100 * mm[m].successCalls < LOW_PERF_RATE_PCT * mm[m].totalCalls}

\* Variant: the three thresholds tested with >=
analyseAndAdapt_AtThreshold(snaps, mm) ==
    LET recent == SliceLast(snaps, RECENT_SLICE)
        n      == Len(recent)
        latest == recent[n]
        cpuNaN == \E i \in DOMAIN recent : recent[i].cpuUsage = NaN
        sumCPU == SumSeq([i \in DOMAIN recent |-> recent[i].cpuUsage])
        sumErr == SumSeq([i \in DOMAIN recent |-> recent[i].errorRate])
        highMem == IF latest.memoryTotalMB = 0
                   THEN latest.memoryUsedMB > 0
                   ELSE 100 * latest.memoryUsedMB >= MEM_WARN_PCT * latest.memoryTotalMB
        low    == LowPerformingModels(mm)
    IN  IF n < MIN_RECENT THEN {}
        ELSE (IF ~cpuNaN /\ sumCPU >= 10 * CPU_WARN_PCT * n
                 THEN {Warning("HIGH CPU", {})} ELSE {})
             \cup (IF highMem THEN {Warning("HIGH MEMORY", {})} ELSE {})
             \cup (IF sumErr >= ERROR_WARN * n
                      THEN {Warning("HIGH ERROR RATE", {})} ELSE {})
             \cup (IF low # {} THEN {Warning("LOW PERFORMING MODELS", low)} ELSE {})

\* The lines analyseAndAdapt() writes with console.warn, on history snaps.
analyseAndAdapt(snaps, mm) ==
    LET recent == SliceLast(snaps, RECENT_SLICE)
        n      == Len(recent)
        latest == recent[n]
        cpuNaN == \E i \in DOMAIN recent : recent[i].cpuUsage = NaN
        sumCPU == SumSeq([i \in DOMAIN recent |-> recent[i].cpuUsage])
        sumErr == SumSeq([i \in DOMAIN recent |-> recent[i].errorRate])
        \* used / total * 100 > 85; x / 0 is Infinity for x > 0 and NaN for 0
        highMem == IF latest.memoryTotalMB = 0
                   THEN latest.memoryUsedMB > 0
                   ELSE 100 * latest.memoryUsedMB > MEM_WARN_PCT * latest.memoryTotalMB
        low    == LowPerformingModels(mm)
    IN  IF n < MIN_RECENT THEN {}
        ELSE (IF ~cpuNaN /\ sumCPU > 10 * CPU_WARN_PCT * n
                 THEN {Warning("HIGH CPU", {})} ELSE {})
             \cup (IF highMem THEN {Warning("HIGH MEMORY", {})} ELSE {})
             \cup (IF sumErr > ERROR_WARN * n
                      THEN {Warning("HIGH ERROR RATE", {})} ELSE {})
             \cup (IF low # {} THEN {Warning("LOW PERFORMING MODELS", low)} ELSE {})

-----------------------------------------------------------------------------
(* Lifecycle: startMonitoring / stopMonitoring and the interval's callback *)

\* setInterval: the runtime adds a live interval under a fresh handle
SetInterval(ts, handle) ==
    [t \in DOMAIN ts \cup {handle} |->
        IF t = handle THEN now + MONITOR_INTERVAL_MS ELSE ts[t]]

\* clearInterval(handle)
ClearInterval(ts, handle) == [t \in DOMAIN ts \ {handle} |-> ts[t]]

StartMonitoring ==
    /\ timers' = SetInterval(timers, nextTimerId)
    /\ monitorInterval' = nextTimerId
    /\ nextTimerId' = nextTimerId + 1
    /\ warnings' = {}
    /\ ret' = [op |-> "startMonitoring", arg |-> "none", val |-> "void"]
    /\ UNCHANGED <<snapshots, modelMetrics, activeRequests, responseTimes, errors, now>>
    /\ UNCHANGED <<handlers, outside>>

\* Variant: the interval is cleared but the engine keeps its handle
StopMonitoring_KeepsHandle ==
    /\ IF monitorInterval # NULL
       THEN timers' = ClearInterval(timers, monitorInterval)
       ELSE UNCHANGED timers
    /\ warnings' = {}
    /\ ret' = [op |-> "stopMonitoring", arg |-> "none", val |-> "void"]
    /\ UNCHANGED <<snapshots, modelMetrics, activeRequests, responseTimes, errors,
                   monitorInterval, nextTimerId, now>>
    /\ UNCHANGED <<handlers, outside>>

StopMonitoring ==
    /\ IF monitorInterval # NULL
       THEN /\ timers' = ClearInterval(timers, monitorInterval)
            /\ monitorInterval' = NULL
       ELSE UNCHANGED <<timers, monitorInterval>>
    /\ warnings' = {}
    /\ ret' = [op |-> "stopMonitoring", arg |-> "none", val |-> "void"]
    /\ UNCHANGED <<snapshots, modelMetrics, activeRequests, responseTimes, errors,
                   nextTimerId, now>>
    /\ UNCHANGED <<handlers, outside>>

\* Variant: the callback runs analyseAndAdapt() before captureSnapshot()
TimerTick_AlertFirst(handle, host) ==
    /\ handle \in DOMAIN timers
    /\ now >= timers[handle]
    /\ snapshots' = captureSnapshot(host)
    /\ warnings' = analyseAndAdapt(snapshots, modelMetrics)
    /\ timers' = [timers EXCEPT ![handle] = now + MONITOR_INTERVAL_MS]
    /\ ret' = [op |-> "timer", arg |-> handle, val |-> "void"]
    /\ UNCHANGED <<modelMetrics, activeRequests, responseTimes, errors,
                   monitorInterval, nextTimerId, now>>
    /\ UNCHANGED <<handlers, outside>>

\* A live interval is due: the runtime runs its callback,
\* captureSnapshot() then analyseAndAdapt(), and schedules the next run.
TimerTick(handle, host) ==
    /\ handle \in DOMAIN timers
    /\ now >= timers[handle]
    /\ snapshots' = captureSnapshot(host)
    /\ warnings' = analyseAndAdapt(snapshots', modelMetrics)
    /\ timers' = [timers EXCEPT ![handle] = now + MONITOR_INTERVAL_MS]
    /\ ret' = [op |-> "timer", arg |-> handle, val |-> "void"]
    /\ UNCHANGED <<modelMetrics, activeRequests, responseTimes, errors,
                   monitorInterval, nextTimerId, now>>
    /\ UNCHANGED <<handlers, outside>>

\* Time passes, up to the next instant at which a live interval is due.
AdvanceTime(dt) ==
    /\ \A t \in DOMAIN timers : now + dt <= timers[t]
    /\ now' = now + dt
    /\ UNCHANGED <<snapshots, modelMetrics, activeRequests, responseTimes, errors,
                   monitorInterval, timers, nextTimerId, warnings, ret>>
    /\ UNCHANGED <<handlers, outside>>

-----------------------------------------------------------------------------
(* Request handlers: the callers of trackRequestStart, trackRequestEnd and  *)
(* trackModelCall.  Each handler serves one request; each of its calls is   *)
(* one synchronous call of the engine, run to completion.                   *)

Handlers == {"h1", "h2", "h3"}

HandlerNew == [pc |-> "new", model |-> "none", recorded |-> FALSE]

\* The handler takes a request for the model and calls trackRequestStart()
HandlerStart(h, model) ==
    /\ handlers[h].pc = "new"
    /\ handlers' = [handlers EXCEPT ![h] = [@ EXCEPT !.pc = "started", !.model = model]]
    /\ trackRequestStart

\* Its provider call has settled: it calls trackRequestEnd(d, success)
HandlerEnd(h, durationMs, success) ==
    /\ handlers[h].pc = "started"
    /\ handlers' = [handlers EXCEPT ![h] = [@ EXCEPT !.pc = "ended"]]
    /\ trackRequestEnd(durationMs, success)

\* It calls trackModelCall(model, success, d), before or after the end
HandlerRecord(h, durationMs, success) ==
    /\ handlers[h].pc # "new"
    /\ ~handlers[h].recorded
    /\ handlers' = [handlers EXCEPT ![h] = [@ EXCEPT !.recorded = TRUE]]
    /\ trackModelCall(handlers[h].model, success, durationMs)

-----------------------------------------------------------------------------
(* Generation services *)

\* retryAttempts, of both services
RETRY_ATTEMPTS == 3

Services == {"music", "video"}

\* The providers callMusicAPI / callVideoAPI test for, in the order of
\* their tests of process.env.<PROVIDER>_API_KEY
ProviderOrder ==
    [music |-> <<"suno", "udio">>,
     video |-> <<"runway", "stability">>]

\* The provider one call of callMusicAPI / callVideoAPI goes to: the first
\* whose key is configured, else the placeholder result
ChosenProvider(service, keys) ==
    LET configured == SelectSeq(ProviderOrder[service], LAMBDA p : p \in keys)
    IN  IF configured # <<>> THEN Head(configured) ELSE "placeholder"

\* The base of the delay between attempts, in ms
DelayUnit(service) == IF service = "music" THEN 1000 ELSE 2000

\* Variant: the same delay after every failed attempt
DelayMs_Flat(service, attempt) == DelayUnit(service)

\* delay(attempt * 1000) / delay(attempt * 2000)
DelayMs(service, attempt) == attempt * DelayUnit(service)

\* No generation requested yet
GenIdle ==
    [pc |-> "idle", service |-> "none", keys |-> {}, health |-> <<>>,
     attempt |-> 0, calls |-> <<>>, waits |-> <<>>, result |-> "none",
     error |-> "none"]

\* generateMusic(params) / generateVideo(params) is called while the keys
\* in keys are configured; health tells how each provider's API answers
\* during the request: "up" resolves, "down" rejects, "flaky" does either.
Generate(service, keys, health) ==
    /\ gen.pc \in {"idle", "returned", "thrown"}
    /\ gen' = [pc |-> "calling", service |-> service, keys |-> keys,
               health |-> health, attempt |-> 1, calls |-> <<>>,
               waits |-> <<>>, result |-> "none", error |-> "none"]
    /\ UNCHANGED <<snapshots, modelMetrics, activeRequests, responseTimes, errors,
                   monitorInterval, timers, nextTimerId, now, warnings, ret,
                   handlers, boundary, client>>

\* How the API of provider p can answer: the placeholder result is built
\* locally and always returned
CanAnswer(p, ok) ==
    IF p = "placeholder" THEN ok
    ELSE IF ok THEN gen.health[p] # "down" ELSE gen.health[p] # "up"

\* await callMusicAPI(params) / callVideoAPI(params) settles: the result is
\* returned, or the attempt has failed and the loop waits before the next
\* one or, after the last one, throws.
CallAPI(ok) ==
    /\ gen.pc = "calling"
    /\ LET p == ChosenProvider(gen.service, gen.keys)
           called == Append(gen.calls, [provider |-> p, ok |-> ok])
       IN  /\ CanAnswer(p, ok)
           /\ gen' =
                IF ok
                THEN [gen EXCEPT !.pc = "returned", !.calls = called, !.result = p]
                ELSE IF gen.attempt < RETRY_ATTEMPTS
                THEN [gen EXCEPT !.pc = "waiting", !.calls = called,
                                 !.waits = Append(@, DelayMs(gen.service, gen.attempt))]
                ELSE [gen EXCEPT !.pc = "thrown", !.calls = called,
                                 !.error = "failed after 3 attempts"]
    /\ UNCHANGED <<snapshots, modelMetrics, activeRequests, responseTimes, errors,
                   monitorInterval, timers, nextTimerId, now, warnings, ret,
                   handlers, boundary, client>>

\* The delay's timeout fires: the loop goes to its next attempt
DelayDone ==
    /\ gen.pc = "waiting"
    /\ \A t \in DOMAIN timers : now + Last(gen.waits) <= timers[t]
    /\ now' = now + Last(gen.waits)
    /\ gen' = [gen EXCEPT !.pc = "calling", !.attempt = @ + 1]
    /\ UNCHANGED <<snapshots, modelMetrics, activeRequests, responseTimes, errors,
                   monitorInterval, timers, nextTimerId, warnings, ret,
                   handlers, boundary, client>>

-----------------------------------------------------------------------------
(* ErrorBoundary: the React component around the application.  life      *)
(* numbers the page loads: window.location.reload() loads the page again  *)
(* and mounts a new component.                                            *)

\* The retries handleRetry and render allow
BOUNDARY_RETRIES == 3

\* this.state and this.errorLog after the constructor
BoundaryMounted ==
    [hasError |-> FALSE, error |-> "null", errorInfo |-> "null",
     retryCount |-> 0, errorLog |-> <<>>, life |-> 1]

\* Variant: the test of handleRetry written retryCount <= 3
RetriesLeft_Inclusive(retryCount) == retryCount <= BOUNDARY_RETRIES

\* retryCount < 3
RetriesLeft(retryCount) == retryCount < BOUNDARY_RETRIES

\* window.location.reload()
Reloaded(b) == [BoundaryMounted EXCEPT !.life = b.life + 1]

\* A child throws while rendering: getDerivedStateFromError(error), then
\* componentDidCatch(error, errorInfo)
Catch(error, componentStack) ==
    /\ ~boundary.hasError
    /\ boundary' = [boundary EXCEPT
                       !.hasError = TRUE,
                       !.error = error,
                       !.errorInfo = componentStack,
                       !.errorLog = Append(@, [error |-> error, timestamp |-> now])]
    /\ UNCHANGED <<snapshots, modelMetrics, activeRequests, responseTimes, errors,
                   monitorInterval, timers, nextTimerId, now, warnings, ret,
                   handlers, gen, client>>

\* handleRetry(), the handler of the rendered "Try Again" button
HandleRetry ==
    /\ boundary.hasError
    /\ boundary' =
          IF RetriesLeft(boundary.retryCount)
          THEN [boundary EXCEPT !.hasError = FALSE, !.error = "null",
                                !.errorInfo = "null", !.retryCount = @ + 1]
          ELSE Reloaded(boundary)
    /\ UNCHANGED <<snapshots, modelMetrics, activeRequests, responseTimes, errors,
                   monitorInterval, timers, nextTimerId, now, warnings, ret,
                   handlers, gen, client>>

\* handleReload(), the handler of the "Reload Application" button, which
\* render shows in place of "Try Again" when no retries are left
HandleReload ==
    /\ boundary.hasError
    /\ ~RetriesLeft(boundary.retryCount)
    /\ boundary' = Reloaded(boundary)
    /\ UNCHANGED <<snapshots, modelMetrics, activeRequests, responseTimes, errors,
                   monitorInterval, timers, nextTimerId, now, warnings, ret,
                   handlers, gen, client>>

-----------------------------------------------------------------------------
(* API client: the axios instance api, its interceptors, localStorage and *)
(* the page's location.  Tokens are numbered; NO_TOKEN is an empty        *)
(* localStorage.  One request is followed from api(config) to the         *)
(* settling of its promise; an error is named by its status and by the    *)
(* send it answers.                                                       *)

NO_TOKEN == 0

UNAUTHORIZED == 401

ClientStart ==
    [token |-> NO_TOKEN, location |-> "/", pc |-> "idle", retry |-> FALSE,
     sends |-> 0, refreshes |-> 0, authorization |-> NO_TOKEN,
     error |-> "none", issued |-> 0, requests |-> 0]

\* Not between api(config) and the settling of its promise
ClientQuiet == client.pc \in {"idle", "resolved", "rejected"}

\* The application stores the token of a login
StoreToken ==
    /\ ClientQuiet
    /\ client.token = NO_TOKEN
    /\ client' = [client EXCEPT !.token = client.issued + 1,
                                !.issued = @ + 1,
                                !.location = "/"]
    /\ UNCHANGED <<snapshots, modelMetrics, activeRequests, responseTimes, errors,
                   monitorInterval, timers, nextTimerId, now, warnings, ret,
                   handlers, gen, boundary>>

\* authApi.logout()
Logout ==
    /\ ClientQuiet
    /\ client.token # NO_TOKEN
    /\ client' = [client EXCEPT !.token = NO_TOKEN]
    /\ UNCHANGED <<snapshots, modelMetrics, activeRequests, responseTimes, errors,
                   monitorInterval, timers, nextTimerId, now, warnings, ret,
                   handlers, gen, boundary>>

\* api(config): the request interceptor attaches the stored token
SendRequest ==
    /\ ClientQuiet
    /\ client' = [client EXCEPT !.pc = "sent", !.retry = FALSE, !.sends = 1,
                                !.refreshes = 0, !.authorization = client.token,
                                !.error = "none", !.requests = @ + 1]
    /\ UNCHANGED <<snapshots, modelMetrics, activeRequests, responseTimes, errors,
                   monitorInterval, timers, nextTimerId, now, warnings, ret,
                   handlers, gen, boundary>>

\* Variant: the test without the _retry flag
ShouldRefresh_Every401(status, retry) == status = UNAUTHORIZED

\* error.response?.status === 401 && !originalRequest._retry
ShouldRefresh(status, retry) == status = UNAUTHORIZED /\ ~retry

\* The response of a send arrives: a 2xx resolves the promise, an error
\* status runs the response interceptor's error handler up to its await
\* or to its Promise.reject(error).
Respond(status) ==
    /\ client.pc \in {"sent", "resent"}
    /\ LET error == [status |-> status, send |-> client.sends]
       IN  client' =
             IF status = 200
             THEN [client EXCEPT !.pc = "resolved"]
             ELSE IF ShouldRefresh(status, client.retry)
             THEN IF client.token # NO_TOKEN
                  THEN [client EXCEPT !.retry = TRUE, !.pc = "refreshing",
                                      !.refreshes = @ + 1, !.error = error]
                  ELSE [client EXCEPT !.retry = TRUE, !.pc = "rejected",
                                      !.error = error]
             ELSE [client EXCEPT !.pc = "rejected", !.error = error]
    /\ UNCHANGED <<snapshots, modelMetrics, activeRequests, responseTimes, errors,
                   monitorInterval, timers, nextTimerId, now, warnings, ret,
                   handlers, gen, boundary>>

\* await axios.post('/auth/refresh', {token}) settles: the new token is
\* stored and the request sent again with it, or the catch removes the
\* token, sets the location and the handler rejects with the error it has.
RefreshSettles(ok) ==
    /\ client.pc = "refreshing"
    /\ client' =
          IF ok
          THEN [client EXCEPT !.token = client.issued + 1, !.issued = @ + 1,
                              !.authorization = client.issued + 1,
                              !.sends = @ + 1, !.pc = "resent"]
          ELSE [client EXCEPT !.token = NO_TOKEN, !.location = "/login",
                              !.pc = "rejected"]
    /\ UNCHANGED <<snapshots, modelMetrics, activeRequests, responseTimes, errors,
                   monitorInterval, timers, nextTimerId, now, warnings, ret,
                   handlers, gen, boundary>>

-----------------------------------------------------------------------------
(* The engine after construction, the runtime idle at time 0, the page    *)
(* loaded with nobody logged in                                           *)

Init ==
    /\ snapshots = <<>>
    /\ modelMetrics = <<>>
    /\ activeRequests = 0
    /\ responseTimes = <<>>
    /\ errors = <<>>
    /\ monitorInterval = NULL
    /\ timers = <<>>
    /\ nextTimerId = 1
    /\ now = 0
    /\ warnings = {}
    /\ ret = [op |-> "new", arg |-> "none", val |-> "void"]
    /\ handlers = [h \in Handlers |-> HandlerNew]
    /\ gen = GenIdle
    /\ boundary = BoundaryMounted
    /\ client = ClientStart

-----------------------------------------------------------------------------
(* Inputs *)

Durations == {200, 500}

HostIdle == [cpus |-> <<[idle |-> 3, busy |-> 1], [idle |-> 1, busy |-> 1]>>,
             totalMB |-> 1000, freeMB |-> 600]

HostBusy == [cpus |-> <<[idle |-> 1, busy |-> 9], [idle |-> 0, busy |-> 1]>>,
             totalMB |-> 1000, freeMB |-> 100]

\* A host whose readings are unavailable: no core reported, no memory
HostUnavailable == [cpus |-> <<>>, totalMB |-> 0, freeMB |-> 0]

Hosts == {HostIdle, HostBusy, HostUnavailable}

\* A host exactly at the warning thresholds: 85 % busy, 85 % of memory used
HostAtThreshold == [cpus |-> <<[idle |-> 3, busy |-> 17]>>,
                    totalMB |-> 1000, freeMB |-> 150]

\* A host just over them: 86 % busy, 86 % of memory used
HostOverThreshold == [cpus |-> <<[idle |-> 7, busy |-> 43]>>,
                      totalMB |-> 1000, freeMB |-> 140]

AlertHosts == {HostIdle, HostAtThreshold, HostOverThreshold}

\* totalCalls of model m so far
Calls(m) == IF HasMetrics(m) THEN modelMetrics[m].totalCalls ELSE 0

-----------------------------------------------------------------------------
(* Spec: request handlers record starts and ends, failed or not, while the  *)
(* clock runs and dashboards read the current metrics.                      *)

MaxActive == 2

MaxSamples == 2

MaxSnaps == 1

\* The clock runs while fewer than MaxHalfMinutes half minutes have passed
MaxHalfMinutes == 2

HalfMinute == ERROR_WINDOW_MS \div 2

TimeSteps == {HalfMinute, HalfMinute + 1000}

Next ==
    \/ activeRequests < MaxActive /\ TrackRequestStart
    \/ Len(responseTimes) < MaxSamples
         /\ \E d \in Durations, s \in BOOLEAN : TrackRequestEnd(d, s)
    \/ Len(snapshots) < MaxSnaps /\ GetCurrentMetrics(HostIdle)
    \/ \E dt \in TimeSteps : now < MaxHalfMinutes * HalfMinute /\ AdvanceTime(dt)

Spec == Init /\ [][Next]_vars

-----------------------------------------------------------------------------
(* SpecRates: model calls of both outcomes are recorded for two models      *)
(* while snapshots are captured on demand and by the monitoring interval.   *)

MaxModelCalls == 3

MaxRateSnaps == 2

Models == {"suno-v3.5", "kling-3.0"}

NextRates ==
    \/ \E m \in Models, s \in BOOLEAN :
         Calls(m) < MaxModelCalls /\ TrackModelCall(m, s, 200)
    \/ Len(snapshots) < MaxRateSnaps /\ GetCurrentMetrics(HostIdle)
    \/ nextTimerId = 1 /\ StartMonitoring
    \/ now < MONITOR_INTERVAL_MS /\ AdvanceTime(MONITOR_INTERVAL_MS)
    \/ Len(snapshots) < MaxRateSnaps
         /\ \E handle \in DOMAIN timers : TimerTick(handle, HostIdle)

SpecRates == Init /\ [][NextRates]_vars

-----------------------------------------------------------------------------
(* SpecRouter: model calls of both outcomes are recorded for the music      *)
(* candidates and for one model of another category, and the router is      *)
(* queried for every category in every state reached.                       *)

MaxRouterCalls == 4

RouterModels == {"suno-v3.5", "eleven-music-v2", "musicgen-large", "kling-3.0"}

NextRouter ==
    \/ \E m \in RouterModels, s \in BOOLEAN :
         Calls(m) < MaxRouterCalls /\ TrackModelCall(m, s, 200)
    \/ \E t \in Tasks : GetBestModel(t)

SpecRouter == Init /\ [][NextRouter]_vars

-----------------------------------------------------------------------------
(* SpecWindow: the response-time window is filled past its capacity.  The   *)
(* k-th request ended lasts k ms, so a sample names its insertion.          *)

WindowExtra == 3

Inserted == IF responseTimes = <<>> THEN 0 ELSE Last(responseTimes)

NextWindow ==
    \/ activeRequests < MaxActive /\ TrackRequestStart
    \/ Inserted < MAX_RESPONSE_TIMES + WindowExtra
         /\ \E s \in BOOLEAN : TrackRequestEnd(Inserted + 1, s)

SpecWindow == Init /\ [][NextWindow]_vars

-----------------------------------------------------------------------------
(* SpecHistory: monitoring is started at time 0, as the server does, and    *)
(* the interval fires every MONITOR_INTERVAL_MS until the history has been   *)
(* filled past its capacity; near and past the capacity a dashboard may     *)
(* also read the current metrics, once per instant, and may read the        *)
(* history at any time.                                                     *)

HistorySlack == 2

HistoryExtra == 3

NextHistory ==
    \/ nextTimerId = 1 /\ StartMonitoring
    \/ monitorInterval # NULL
         /\ now < (MAX_SNAPSHOTS + HistoryExtra) * MONITOR_INTERVAL_MS
         /\ AdvanceTime(MONITOR_INTERVAL_MS)
    \/ \E handle \in DOMAIN timers : TimerTick(handle, HostIdle)
    \/ Len(snapshots) >= MAX_SNAPSHOTS - HistorySlack
         /\ Last(snapshots).timestamp < now
         /\ GetCurrentMetrics(HostIdle)
    \/ GetHistory

SpecHistory == Init /\ [][NextHistory]_vars

-----------------------------------------------------------------------------
(* SpecMonitor: the lifecycle.  startMonitoring and stopMonitoring are       *)
(* called in any order while time passes and the live intervals fire.       *)

MaxTimers == 2

MaxMonitorSnaps == 3

MaxMonitorTicks == 3

NextMonitor ==
    \/ nextTimerId <= MaxTimers /\ StartMonitoring
    \/ StopMonitoring
    \/ Len(snapshots) < MaxMonitorSnaps
         /\ \E handle \in DOMAIN timers, h \in Hosts : TimerTick(handle, h)
    \/ Len(snapshots) < MaxMonitorSnaps /\ \E h \in Hosts : GetCurrentMetrics(h)
    \/ GetHistory
    \/ now < MaxMonitorTicks * MONITOR_INTERVAL_MS /\ AdvanceTime(MONITOR_INTERVAL_MS)

SpecMonitor == Init /\ [][NextMonitor]_vars

-----------------------------------------------------------------------------
(* SpecAll: every operation of the engine, in any order, with the clock and  *)
(* the live intervals.  Work counts what has been done so far: requests      *)
(* started and ended, model calls recorded, snapshots captured, intervals    *)
(* set, monitoring periods elapsed.                                          *)

MaxWork == 4

TotalCalls == Calls("suno-v3.5") + Calls("kling-3.0")

Work ==
    activeRequests + Len(responseTimes) + TotalCalls + Len(snapshots)
        + (nextTimerId - 1) + now \div MONITOR_INTERVAL_MS

NextAll ==
    \/ Work < MaxWork /\ TrackRequestStart
    \/ Work < MaxWork /\ \E d \in Durations, s \in BOOLEAN : TrackRequestEnd(d, s)
    \/ Work < MaxWork
         /\ \E m \in Models, s \in BOOLEAN, d \in Durations : TrackModelCall(m, s, d)
    \/ \E t \in Tasks : GetBestModel(t)
    \/ Work < MaxWork /\ GetCurrentMetrics(HostIdle)
    \/ GetHistory
    \/ Work < MaxWork /\ StartMonitoring
    \/ StopMonitoring
    \/ Work < MaxWork /\ \E handle \in DOMAIN timers : TimerTick(handle, HostIdle)
    \/ Work < MaxWork /\ AdvanceTime(MONITOR_INTERVAL_MS)

SpecAll == Init /\ [][NextAll]_vars

-----------------------------------------------------------------------------
(* SpecAlerts: monitoring is started at time 0 on a host whose load is      *)
(* below, at or over the warning thresholds at each sample.  A burst of     *)
(* failed requests ends at time 0; one later request succeeds, and prunes   *)
(* the error window as it ends.                                             *)

MaxAlertSnaps == 7

MaxAlertFailures == 6

NextAlerts ==
    \/ nextTimerId = 1 /\ StartMonitoring
    \/ now = 0 /\ Len(errors) < MaxAlertFailures /\ TrackRequestEnd(200, FALSE)
    \/ Len(responseTimes) = Len(errors) /\ TrackRequestEnd(200, TRUE)
    \/ Len(snapshots) < MaxAlertSnaps
         /\ monitorInterval # NULL
         /\ AdvanceTime(MONITOR_INTERVAL_MS)
    \/ Len(snapshots) < MaxAlertSnaps
         /\ \E handle \in DOMAIN timers, h \in AlertHosts : TimerTick(handle, h)

SpecAlerts == Init /\ [][NextAlerts]_vars

-----------------------------------------------------------------------------
(* SpecLowPerf: monitoring is started on an idle host, whose metrics a      *)
(* dashboard may also read; the calls of two models, of both outcomes, are  *)
(* recorded between the second snapshot and the third, the first on which   *)
(* analyseAndAdapt acts.                                                    *)

MaxLowPerfCalls == 10

NextLowPerf ==
    \/ nextTimerId = 1 /\ StartMonitoring
    \/ Len(snapshots) = MIN_RECENT - 1
         /\ \E m \in Models, s \in BOOLEAN :
               Calls(m) < MaxLowPerfCalls /\ TrackModelCall(m, s, 200)
    \/ Len(snapshots) < MIN_RECENT
         /\ monitorInterval # NULL
         /\ AdvanceTime(MONITOR_INTERVAL_MS)
    \/ Len(snapshots) < MIN_RECENT
         /\ \E handle \in DOMAIN timers : TimerTick(handle, HostIdle)
    \/ Len(snapshots) < MIN_RECENT /\ GetCurrentMetrics(HostIdle)

SpecLowPerf == Init /\ [][NextLowPerf]_vars

-----------------------------------------------------------------------------
(* SpecGenerate: music and video generations are requested one after the    *)
(* other, under every configuration of provider keys and every health of   *)
(* the providers.  Every API call settles and every timeout fires.          *)

MaxGenSeconds == 3

Healths(service) ==
    [{ProviderOrder[service][i] : i \in 1..2} -> {"up", "down", "flaky"}]

NextGenerate ==
    \/ now < MaxGenSeconds * 1000
         /\ \E service \in Services :
               \E keys \in SUBSET {ProviderOrder[service][i] : i \in 1..2},
                  health \in Healths(service) :
                  Generate(service, keys, health)
    \/ \E ok \in BOOLEAN : CallAPI(ok)
    \/ DelayDone

SpecGenerate ==
    /\ Init
    /\ [][NextGenerate]_vars
    /\ WF_vars(\E ok \in BOOLEAN : CallAPI(ok))
    /\ WF_vars(DelayDone)

-----------------------------------------------------------------------------
(* SpecHandlers: three request handlers run concurrently, their calls       *)
(* interleaved in every order with each other and with the monitoring       *)
(* interval's callback.                                                     *)

MaxHandlerSnaps == 1

NextHandlers ==
    \/ \E h \in Handlers, m \in Models : HandlerStart(h, m)
    \/ \E h \in Handlers : HandlerEnd(h, 200, TRUE)
    \/ \E h \in Handlers, s \in BOOLEAN : HandlerRecord(h, 200, s)
    \/ nextTimerId = 1 /\ StartMonitoring
    \/ Len(snapshots) < MaxHandlerSnaps
         /\ monitorInterval # NULL
         /\ AdvanceTime(MONITOR_INTERVAL_MS)
    \/ Len(snapshots) < MaxHandlerSnaps
         /\ \E handle \in DOMAIN timers : TimerTick(handle, HostIdle)

SpecHandlers == Init /\ [][NextHandlers]_vars

-----------------------------------------------------------------------------
(* SpecTicker: the monitoring loop under a fair runtime.  The clock keeps    *)
(* running and a due interval's callback is eventually run; monitoring is    *)
(* started, stopped and started again at any time.                           *)

MaxTickerSnaps == 3

MaxTickerIdle == 1

TickerHosts == {HostIdle, HostOverThreshold}

\* The event loop runs the callback of a due interval
TickerTick ==
    /\ Len(snapshots) < MaxTickerSnaps
    /\ \E handle \in DOMAIN timers, h \in TickerHosts : TimerTick(handle, h)

\* The clock runs on to the next monitoring period
TickerTime ==
    /\ \/ DOMAIN timers # {} /\ Len(snapshots) < MaxTickerSnaps
       \/ DOMAIN timers = {} /\ now < MaxTickerIdle * MONITOR_INTERVAL_MS
    /\ AdvanceTime(MONITOR_INTERVAL_MS)

NextTicker ==
    \/ nextTimerId <= MaxTimers /\ StartMonitoring
    \/ StopMonitoring
    \/ TickerTick
    \/ TickerTime

SpecTicker ==
    Init /\ [][NextTicker]_vars /\ WF_vars(TickerTick) /\ WF_vars(TickerTime)

-----------------------------------------------------------------------------
(* SpecIsolation: calls are recorded for two music candidates, for a video  *)
(* candidate and for a model of no list, while requests start and end and   *)
(* dashboards read the current metrics; the router is queried for every     *)
(* category in every state reached.                                         *)

MaxIsolationWork == 4

IsolationModels == {"suno-v3.5", "eleven-music-v2", "kling-3.0", "custom-model"}

IsolationWork ==
    activeRequests + Len(responseTimes) + Len(snapshots)
        + Calls("suno-v3.5") + Calls("eleven-music-v2")
        + Calls("kling-3.0") + Calls("custom-model")

NextIsolation ==
    \/ IsolationWork < MaxIsolationWork
         /\ \E m \in IsolationModels, s \in BOOLEAN : TrackModelCall(m, s, 200)
    \/ IsolationWork < MaxIsolationWork /\ TrackRequestStart
    \/ IsolationWork < MaxIsolationWork /\ \E s \in BOOLEAN : TrackRequestEnd(200, s)
    \/ IsolationWork < MaxIsolationWork /\ GetCurrentMetrics(HostIdle)
    \/ \E t \in Tasks : GetBestModel(t)

SpecIsolation == Init /\ [][NextIsolation]_vars

-----------------------------------------------------------------------------
(* SpecBoundary: children throw while rendering, the user retries and       *)
(* reloads, over a bounded number of page loads.                            *)

MaxLives == 2

RenderErrors == {"TypeError", "ChunkLoadError"}

ComponentStacks == {"at Player", "at Studio"}

NextBoundary ==
    \/ \E e \in RenderErrors, c \in ComponentStacks : Catch(e, c)
    \/ (boundary.life < MaxLives \/ RetriesLeft(boundary.retryCount)) /\ HandleRetry
    \/ boundary.life < MaxLives /\ HandleReload

SpecBoundary == Init /\ [][NextBoundary]_vars

-----------------------------------------------------------------------------
(* SpecClient: the user logs in and out and the application makes requests, *)
(* one at a time, which the server answers with any of three statuses; the  *)
(* refresh endpoint accepts or rejects the token.                           *)

MaxRequests == 3

MaxLogins == 2

Statuses == {200, UNAUTHORIZED, 500}

NextClient ==
    \/ client.issued < MaxLogins /\ StoreToken
    \/ Logout
    \/ client.requests < MaxRequests /\ SendRequest
    \/ \E status \in Statuses : Respond(status)
    \/ \E ok \in BOOLEAN : RefreshSettles(ok)

SpecClient == Init /\ [][NextClient]_vars

-----------------------------------------------------------------------------
(* Claims on the adaptive router, under SpecRouter *)

Candidates(taskType) == Range(modelsByTask[taskType])

\* The candidates of a category that have a recorded call
Recorded(taskType) == {m \in Candidates(taskType) : Calls(m) > 0}

\* successCalls/totalCalls of a is at most that of b (both have calls)
RateLeq(a, b) ==
    modelMetrics[a].successCalls * modelMetrics[b].totalCalls
        <= modelMetrics[b].successCalls * modelMetrics[a].totalCalls

\* The place of model m in the static candidate list of a category
IndexIn(taskType, m) ==
    CHOOSE i \in DOMAIN modelsByTask[taskType] : modelsByTask[taskType][i] = m

Returned(op) == ret.op = op

\* C1: when a candidate of the category has a recorded call, getBestModel
\* returns a candidate with recorded calls whose success rate is maximal
\* among the candidates with recorded calls.
C1_BestRecordedRate ==
    (Returned("getBestModel") /\ Recorded(ret.arg) # {})
        => /\ ret.val \in Recorded(ret.arg)
           /\ \A m \in Recorded(ret.arg) : RateLeq(m, ret.val)

\* The third music candidate is returned: the first has no call, the second
\* has calls and a lower rate.
C1_Witness ==
    /\ Returned("getBestModel") /\ ret.arg = "music"
    /\ ret.val = "musicgen-large"
    /\ Calls("suno-v3.5") = 0
    /\ Calls("eleven-music-v2") > 0
    /\ ~RateLeq("musicgen-large", "eleven-music-v2")

\* C2: when no candidate of the category has a recorded call, getBestModel
\* returns the first entry of the category's static list, whatever is
\* recorded for models of other categories.
C2_DefaultIsFirst ==
    (Returned("getBestModel") /\ Recorded(ret.arg) = {})
        => ret.val = modelsByTask[ret.arg][1]

\* The music list has no data while a video model has calls.
C2_Witness ==
    /\ Returned("getBestModel") /\ ret.arg = "music"
    /\ Recorded("music") = {}
    /\ Calls("kling-3.0") > 1
    /\ ret.val = "suno-v3.5"

\* C3: among the candidates with recorded calls that share the maximal
\* success rate, getBestModel returns the earliest of the static list.
C3_TieGoesToEarliest ==
    Returned("getBestModel")
        => \A m \in Recorded(ret.arg) :
              (ret.val \in Recorded(ret.arg) /\ RateLeq(ret.val, m))
                  => IndexIn(ret.arg, ret.val) <= IndexIn(ret.arg, m)

\* The second and third music candidates tie at 1/2 = 2/4 above the first.
C3_Witness ==
    /\ Returned("getBestModel") /\ ret.arg = "music"
    /\ ret.val = "eleven-music-v2"
    /\ Calls("suno-v3.5") > 0
    /\ ~RateLeq("eleven-music-v2", "suno-v3.5")
    /\ Calls("eleven-music-v2") = 2 /\ Calls("musicgen-large") = 4
    /\ RateLeq("eleven-music-v2", "musicgen-large")
    /\ RateLeq("musicgen-large", "eleven-music-v2")

\* C4: getBestModel returns, for every category and in every state, a member
\* of that category's static candidate list.
C4_ReturnsCandidate ==
    Returned("getBestModel") => ret.val \in Candidates(ret.arg)

\* A category none of whose models was ever called, beside recorded ones.
C4_Witness ==
    /\ Returned("getBestModel") /\ ret.arg = "voice"
    /\ ret.val = "eleven-v3"
    /\ Recorded("music") # {} /\ Recorded("video") # {}

-----------------------------------------------------------------------------
(* Claims on the metrics store and the sampler *)

\* A success rate <<numerator, denominator>> lies in [0, 1]
InUnitInterval(rate) == rate[2] > 0 /\ 0 <= rate[1] /\ rate[1] <= rate[2]

\* C5: after any sequence of trackModelCall calls every entry has
\* 0 <= successCalls <= totalCalls, every success rate a snapshot reports
\* lies in [0, 1], and the rate of an entry without calls is 0.
C5_RatesInUnitInterval ==
    /\ \A m \in DOMAIN modelMetrics :
          /\ 0 <= modelMetrics[m].successCalls
          /\ modelMetrics[m].successCalls <= modelMetrics[m].totalCalls
          /\ InUnitInterval(SuccessRate(modelMetrics[m]))
    /\ \A i \in DOMAIN snapshots :
          \A m \in DOMAIN snapshots[i].modelSuccessRates :
              InUnitInterval(snapshots[i].modelSuccessRates[m])
    /\ SuccessRate(NewModelMetrics) = <<0, 1>>

\* A snapshot reports 2/3 for one model and 0 for the other.
C5_Witness ==
    /\ snapshots # <<>>
    /\ DOMAIN Last(snapshots).modelSuccessRates = Models
    /\ Last(snapshots).modelSuccessRates["suno-v3.5"] = <<2, 3>>
    /\ Last(snapshots).modelSuccessRates["kling-3.0"] = <<0, 1>>

\* A step that is a call of trackRequestEnd
IsRequestEnd ==
    /\ ret'.op = "trackRequestEnd"
    /\ TrackRequestEnd(ret'.arg.durationMs, ret'.arg.success)

\* A step that runs captureSnapshot: a dashboard read or an interval callback
IsCapture ==
    \/ ret'.op = "getCurrentMetrics" /\ \E h \in Hosts : GetCurrentMetrics(h)
    \/ ret'.op = "timer" /\ \E h \in Hosts : TimerTick(ret'.arg, h)

\* C6: the active-request counter is never negative, for any interleaving of
\* trackRequestStart and trackRequestEnd, and an end at 0 leaves it at 0.
C6_ActiveNeverNegative ==
    /\ [](activeRequests >= 0)
    /\ [][(IsRequestEnd /\ activeRequests = 0) => activeRequests' = 0]_vars

\* A second request end has returned with the counter at 0, after a snapshot
\* that already saw no active request.
C6_Witness ==
    /\ Returned("trackRequestEnd")
    /\ activeRequests = 0
    /\ Len(responseTimes) = 2
    /\ snapshots # <<>>
    /\ Last(snapshots).activeRequests = 0

\* C7: the response-time window never holds more than 100 samples and
\* eviction is FIFO: an end at capacity drops the oldest sample, which is then
\* absent, keeps the others in order and puts the newest last.
C7_WindowBoundedFifo ==
    /\ [](Len(responseTimes) <= MAX_RESPONSE_TIMES)
    /\ [][IsRequestEnd =>
            LET d == ret'.arg.durationMs
                n == Len(responseTimes)
            IN  IF n < MAX_RESPONSE_TIMES
                THEN responseTimes' = Append(responseTimes, d)
                ELSE /\ Len(responseTimes') = MAX_RESPONSE_TIMES
                     /\ responseTimes'[MAX_RESPONSE_TIMES] = d
                     /\ \A i \in 1 .. (MAX_RESPONSE_TIMES - 1) :
                           responseTimes'[i] = responseTimes[i + 1]
                     /\ responseTimes[1] \notin Range(responseTimes')]_vars

\* After exactly capacity + 1 insertions: sample 1 is gone, 101 is last.
C7_Witness ==
    /\ Returned("trackRequestEnd")
    /\ Len(responseTimes) = MAX_RESPONSE_TIMES
    /\ responseTimes[1] = 2
    /\ Last(responseTimes) = MAX_RESPONSE_TIMES + 1
    /\ 1 \notin Range(responseTimes)

\* C8: the snapshot history never exceeds 1000 entries however often
\* captureSnapshot runs, from the timer or from getCurrentMetrics; a capture
\* at capacity evicts exactly the oldest snapshot and the new one is last.
C8_HistoryBoundedFifo ==
    /\ [](Len(snapshots) <= MAX_SNAPSHOTS)
    /\ [][IsCapture =>
            LET n == Len(snapshots)
            IN  /\ IF n < MAX_SNAPSHOTS
                   THEN /\ Len(snapshots') = n + 1
                        /\ \A i \in 1 .. n : snapshots'[i] = snapshots[i]
                   ELSE /\ Len(snapshots') = MAX_SNAPSHOTS
                        /\ \A i \in 1 .. (MAX_SNAPSHOTS - 1) :
                              snapshots'[i] = snapshots[i + 1]
                /\ Last(snapshots').timestamp = now
                /\ Last(snapshots').activeRequests = activeRequests]_vars

\* A dashboard read at capacity has evicted the first tick's snapshot.
C8_Witness ==
    /\ Returned("getCurrentMetrics")
    /\ Len(snapshots) = MAX_SNAPSHOTS
    /\ snapshots[1].timestamp > MONITOR_INTERVAL_MS
    /\ Last(snapshots) = ret.val

\* The failures recorded in the 60 seconds before time t that the error
\* window holds (it holds every failure of the 60 seconds before its last
\* pruning, and nothing is recorded without pruning).
FailuresWithin60s(t) ==
    Cardinality({i \in DOMAIN errors : errors[i] > t - ERROR_WINDOW_MS})

\* C9: a snapshot's error count is the number of failures recorded in the
\* 60 seconds before its capture: 0 once 61 seconds have passed since the
\* last failed request.
C9_ErrorCountIsLastMinute ==
    Returned("getCurrentMetrics")
        => ret.val.errorRate = FailuresWithin60s(ret.val.timestamp)

-----------------------------------------------------------------------------
(* Claims on the lifecycle, under SpecMonitor *)

\* C10: once stopMonitoring has returned and until a later startMonitoring,
\* that is while monitorInterval is null, no interval callback runs.
C10_NoTickWhileStopped ==
    Returned("timer") => monitorInterval # NULL

\* A step that is a call of stopMonitoring
IsStop == ret'.op = "stopMonitoring" /\ StopMonitoring

\* C11: stopMonitoring always leaves the engine without an interval and
\* never touches the history or the metrics; called with no interval, so
\* never started or already stopped, it changes nothing at all, so that a
\* second call in a row leaves the state of the first.
C11_StopIdempotent ==
    /\ [](Returned("stopMonitoring") => monitorInterval = NULL)
    /\ [][IsStop => UNCHANGED <<snapshots, modelMetrics, activeRequests,
                                responseTimes, errors, nextTimerId, now>>]_vars
    /\ [][(IsStop /\ monitorInterval = NULL)
            => UNCHANGED <<engine, timers, nextTimerId, now>>]_vars

\* stopMonitoring has returned on an engine that was never started and
\* that holds a history
C11_Witness ==
    /\ Returned("stopMonitoring")
    /\ nextTimerId = 1
    /\ snapshots # <<>>

-----------------------------------------------------------------------------
(* Claims on the dashboard reads *)

\* A step that is a call of getCurrentMetrics or of getHistory
IsRead ==
    \/ ret'.op = "getCurrentMetrics" /\ \E h \in Hosts : GetCurrentMetrics(h)
    \/ ret'.op = "getHistory" /\ GetHistory

\* C12: getCurrentMetrics and getHistory are read-only: a call of either
\* leaves the history, the model metrics, the count of active requests,
\* the response-time window and the error window as they were.
C12_ReadsChangeNothing ==
    [][IsRead => UNCHANGED <<snapshots, modelMetrics, activeRequests,
                             responseTimes, errors>>]_vars

Min(a, b) == IF a < b THEN a ELSE b

\* C13 as claimed: for any n a caller asks for, getHistory returns exactly
\* the most recent min(n, history length) snapshots.
C13_ReturnsLatestN ==
    Returned("getHistory")
        => \A n \in 1..MAX_SNAPSHOTS :
              /\ Len(ret.val) = Min(n, Len(snapshots))
              /\ \A i \in 1..Len(ret.val) :
                    ret.val[i] = snapshots[Len(snapshots) - Len(ret.val) + i]

\* C13, amended: getHistory takes no n; it returns exactly the most recent
\* min(50, history length) snapshots, oldest first, in the order of their
\* capture.
C13_ReturnsLatest50 ==
    Returned("getHistory")
        => /\ Len(ret.val) = Min(HISTORY_SLICE, Len(snapshots))
           /\ \A i \in 1..Len(ret.val) :
                 ret.val[i] = snapshots[Len(snapshots) - Len(ret.val) + i]
           /\ \A i, j \in 1..Len(ret.val) :
                 i < j => ret.val[i].timestamp <= ret.val[j].timestamp

\* getHistory has returned from a history longer than 50 snapshots
C13_Witness ==
    /\ Returned("getHistory")
    /\ Len(snapshots) > HISTORY_SLICE
    /\ Len(ret.val) = HISTORY_SLICE
    /\ ret.val[1] # snapshots[1]

-----------------------------------------------------------------------------
(* Claims on the model metrics *)

\* C14: the success-rate map of a snapshot, captured by the interval or
\* returned by getCurrentMetrics, has an entry for exactly the models that
\* trackModelCall has been called with so far, and each entry is that
\* model's successCalls / totalCalls at the capture: 1 when every call
\* succeeded, 0 when every call failed.
C14_RatesOfRecordedModels ==
    [][IsCapture =>
        LET snapshot == Last(snapshots')
            rates == snapshot.modelSuccessRates
        IN  /\ ret'.op = "getCurrentMetrics" => ret'.val = snapshot
            /\ DOMAIN rates = {m \in Models : Calls(m) > 0}
            /\ \A m \in DOMAIN rates :
                  /\ rates[m][2] > 0
                  /\ rates[m][1] * modelMetrics[m].totalCalls
                        = rates[m][2] * modelMetrics[m].successCalls
                  /\ modelMetrics[m].successCalls = modelMetrics[m].totalCalls
                        => rates[m] = <<1, 1>>
                  /\ modelMetrics[m].successCalls = 0 => rates[m] = <<0, 1>>]_vars

\* getCurrentMetrics has returned after ten successful calls of one model
\* and two failed calls of the other: rates 1 and 0
C14_Witness ==
    /\ Returned("getCurrentMetrics")
    /\ DOMAIN ret.val.modelSuccessRates = Models
    /\ modelMetrics["suno-v3.5"].successCalls = 10
    /\ ret.val.modelSuccessRates["suno-v3.5"] = <<1, 1>>
    /\ modelMetrics["kling-3.0"].totalCalls = 2
    /\ ret.val.modelSuccessRates["kling-3.0"] = <<0, 1>>

\* A step that is a call of trackModelCall
IsModelCall ==
    /\ ret'.op = "trackModelCall"
    /\ TrackModelCall(ret'.arg.model, ret'.arg.success, ret'.arg.durationMs)

\* The counters of a model's entry, zero when it has none
Counters(m) ==
    IF HasMetrics(m)
    THEN modelMetrics[m]
    ELSE [totalCalls |-> 0, successCalls |-> 0, totalTimeMs |-> 0]

\* C15: trackModelCall(p, success, d) leaves p with an entry whose
\* totalCalls is one more than before (than zero, if it had none), whose
\* successCalls is one more iff success, and whose totalTimeMs is d more;
\* it leaves every other entry as it was; no step deletes an entry, and a
\* step of any other operation leaves every entry as it was.
C15_OnlyModelCallsCount ==
    [][IF IsModelCall
       THEN LET p == ret'.arg.model
                old == Counters(p)
            IN  /\ DOMAIN modelMetrics' = DOMAIN modelMetrics \cup {p}
                /\ modelMetrics'[p].totalCalls = old.totalCalls + 1
                /\ modelMetrics'[p].successCalls
                      = old.successCalls + (IF ret'.arg.success THEN 1 ELSE 0)
                /\ modelMetrics'[p].totalTimeMs
                      = old.totalTimeMs + ret'.arg.durationMs
                /\ \A m \in DOMAIN modelMetrics \ {p} :
                      modelMetrics'[m] = modelMetrics[m]
       ELSE modelMetrics' = modelMetrics]_vars

\* trackModelCall has returned from a failed second call of a model, while
\* the other model has an entry and a snapshot has been captured
C15_Witness ==
    /\ Returned("trackModelCall")
    /\ ~ret.arg.success
    /\ DOMAIN modelMetrics = Models
    /\ modelMetrics[ret.arg.model].totalCalls = 2
    /\ modelMetrics[ret.arg.model].successCalls = 1
    /\ snapshots # <<>>

-----------------------------------------------------------------------------
(* Claims on the error window, under Spec *)

\* A failure recorded at time t is within the 60 seconds before now
Fresh(t) == t > now - ERROR_WINDOW_MS

\* C16: trackRequestEnd leaves in the error window the failures of the
\* trailing 60 seconds that it held, in their order, followed by exactly
\* one entry, the current time, when success is false and by nothing when
\* it is true; every entry left satisfies t > now - 60000.
C16_ErrorWindowAfterEnd ==
    [][IsRequestEnd =>
        /\ errors' = SelectSeq(errors, Fresh)
                        \o (IF ret'.arg.success THEN <<>> ELSE <<now>>)
        /\ Len(errors') = Cardinality({i \in DOMAIN errors : Fresh(errors[i])})
                            + (IF ret'.arg.success THEN 0 ELSE 1)
        /\ \A i \in DOMAIN errors' : errors'[i] > now - ERROR_WINDOW_MS]_vars

\* A failed request has ended 60 seconds or more after a failure that a
\* snapshot counted: the old failure is gone, the new one is the only entry
C16_Witness ==
    /\ Returned("trackRequestEnd")
    /\ ~ret.arg.success
    /\ snapshots # <<>>
    /\ Last(snapshots).errorRate >= 1
    /\ now >= Last(snapshots).timestamp + ERROR_WINDOW_MS
    /\ errors = <<now>>

-----------------------------------------------------------------------------
(* Claims on the alerting sink *)

\* A step that is a run of the interval's callback, which ends with the
\* run of analyseAndAdapt
IsAlertingRun ==
    /\ ret'.op = "timer"
    /\ \E h \in AlertHosts \cup Hosts : TimerTick(ret'.arg, h)

Kinds(ws) == {w.kind : w \in ws}

\* C17: a run of analyseAndAdapt on a history of fewer than 3 snapshots
\* warns of nothing; on 3 or more it warns of HIGH CPU iff the mean
\* cpuUsage of the most recent min(6, length) snapshots is over 85 (850
\* tenths), of HIGH MEMORY iff the latest snapshot's used memory is over
\* 85 % of its total, and of HIGH ERROR RATE iff the mean error count of
\* those snapshots is over 5; a value equal to its threshold warns of
\* nothing.
C17_WarningsByThreshold ==
    [][IsAlertingRun =>
        LET len    == Len(snapshots')
            n      == Min(6, len)
            cpu    == SumSeq([i \in 1..n |-> snapshots'[len - n + i].cpuUsage])
            err    == SumSeq([i \in 1..n |-> snapshots'[len - n + i].errorRate])
            latest == snapshots'[len]
            kinds  == Kinds(warnings')
        IN  IF len < 3
            THEN warnings' = {}
            ELSE /\ "HIGH CPU" \in kinds <=> cpu > 850 * n
                 /\ "HIGH MEMORY" \in kinds
                       <=> 100 * latest.memoryUsedMB > 85 * latest.memoryTotalMB
                 /\ "HIGH ERROR RATE" \in kinds <=> err > 5 * n]_vars

\* The callback has run on 7 snapshots: the oldest, over the CPU threshold
\* and counting 6 errors, is outside the last 6, whose CPU mean is exactly
\* 85 and whose error mean is exactly 5; the latest uses exactly 85 % of the
\* memory: no warning
C17_Witness ==
    /\ Returned("timer")
    /\ Len(snapshots) = 7
    /\ snapshots[1].cpuUsage > 850
    /\ snapshots[1].errorRate = 6
    /\ \A i \in 2..7 : snapshots[i].cpuUsage = 850
    /\ \A i \in 2..6 : snapshots[i].errorRate = 6
    /\ snapshots[7].errorRate = 0
    /\ 100 * snapshots[7].memoryUsedMB = 85 * snapshots[7].memoryTotalMB
    /\ warnings = {}

\* The warnings of low-performing models among ws
LowWarnings(ws) == {w \in ws : w.kind = "LOW PERFORMING MODELS"}

\* The models with at least 6 recorded calls and a success rate below 0.7
BelowSevenTenths ==
    {m \in Models :
        /\ Calls(m) >= 6
        /\ 10 * modelMetrics[m].successCalls < 7 * modelMetrics[m].totalCalls}

\* C18: a run of analyseAndAdapt that acts (3 snapshots or more) warns of
\* low-performing models iff some model has at least 6 recorded calls and a
\* success rate strictly below 0.7, and the warning lists exactly those
\* models: none with 5 calls or fewer, none with a rate of 0.7 or more.
C18_LowPerformingListed ==
    [][IsAlertingRun =>
        LET lows == LowWarnings(warnings')
        IN  IF Len(snapshots') < 3 \/ BelowSevenTenths = {}
            THEN lows = {}
            ELSE /\ Cardinality(lows) = 1
                 /\ \A w \in lows : w.models = BelowSevenTenths]_vars

\* The callback has warned of one model, with 4 successes in 6 calls, and
\* not of the other, with 7 successes in 10 calls
C18_Witness ==
    /\ Returned("timer")
    /\ DOMAIN modelMetrics = Models
    /\ LowWarnings(warnings) = {Warning("LOW PERFORMING MODELS", {"suno-v3.5"})}
    /\ modelMetrics["suno-v3.5"].totalCalls = 6
    /\ modelMetrics["suno-v3.5"].successCalls = 4
    /\ modelMetrics["kling-3.0"].totalCalls = 10
    /\ modelMetrics["kling-3.0"].successCalls = 7

\* C19: every snapshot appended to the history, by the interval's callback
\* or by getCurrentMetrics, is followed by a run of analyseAndAdapt before
\* the next one is appended: the step that appends it emits the warnings
\* of analyseAndAdapt on the history it leaves.
C19_EverySnapshotAnalysed ==
    [][IsCapture => warnings' = analyseAndAdapt(snapshots', modelMetrics')]_vars

-----------------------------------------------------------------------------
(* Claims on unavailable host readings, under SpecMonitor *)

\* A step that captures a snapshot on the host reading h
IsCaptureOn(h) ==
    \/ ret'.op = "getCurrentMetrics" /\ GetCurrentMetrics(h)
    \/ ret'.op = "timer" /\ TimerTick(ret'.arg, h)

\* C20: when the host reports no core and no memory, captureSnapshot still
\* appends a snapshot, and the snapshot holds zero in the unavailable
\* fields: cpuUsage is 0, not NaN.
C20_ZeroWhenUnavailable ==
    [][IsCaptureOn(HostUnavailable) =>
        /\ Len(snapshots') = Len(snapshots) + 1
        /\ Last(snapshots').cpuUsage = 0
        /\ Last(snapshots').memoryUsedMB = 0
        /\ Last(snapshots').memoryTotalMB = 0]_vars

-----------------------------------------------------------------------------
(* Claims on the generation services, under SpecGenerate *)

Finished == gen.pc \in {"returned", "thrown"}

\* The attempts of the generation that went to an external provider
ExternalCalls == SelectSeq(gen.calls, LAMBDA c : c.provider # "placeholder")

\* C21: when a generation has finished, successfully or not, its attempts
\* have been reported to the engine: the count of active requests is back
\* to its value before the generation (0: nothing else runs), and the
\* totalCalls of a model has grown by the number of attempts made.
C21_AttemptsReported ==
    (Finished /\ ExternalCalls # <<>>)
        => /\ activeRequests = 0
           /\ \E m \in DOMAIN modelMetrics :
                 modelMetrics[m].totalCalls >= Len(ExternalCalls)

\* The configured providers, other than the one the calls go to, whose API
\* resolves during the request
HealthyBackups ==
    {p \in gen.keys : /\ p # ChosenProvider(gen.service, gen.keys)
                      /\ gen.health[p] = "up"}

\* C22: a generation whose primary provider fails on every attempt, while
\* another configured provider would succeed, returns a result from that
\* backup provider.
C22_FallsBackToBackup ==
    (/\ Finished
     /\ ChosenProvider(gen.service, gen.keys) # "placeholder"
     /\ gen.health[ChosenProvider(gen.service, gen.keys)] = "down"
     /\ HealthyBackups # {})
        => /\ gen.pc = "returned"
           /\ gen.result \in HealthyBackups

-----------------------------------------------------------------------------
(* Claims on concurrent request handling, under SpecHandlers *)

\* The handlers that have called trackRequestStart and not yet trackRequestEnd
InFlight == {h \in Handlers : handlers[h].pc = "started"}

\* The handlers that have called trackModelCall for the model
RecordedFor(m) == {h \in Handlers : handlers[h].recorded /\ handlers[h].model = m}

\* C23: no update is lost.  In every interleaving of the handlers' calls
\* with each other and with the timer's ticks, activeRequests is the number
\* of handlers started and not ended, and each model's totalCalls is the
\* number of trackModelCall invocations made for it.
C23_NoLostUpdate ==
    /\ activeRequests = Cardinality(InFlight)
    /\ \A m \in Models : Calls(m) = Cardinality(RecordedFor(m))

\* Three handlers were in flight at once over a tick; two have ended, and
\* all three have recorded a call of the same model
C23_Witness ==
    /\ Len(snapshots) = 1
    /\ snapshots[1].activeRequests = 3
    /\ Cardinality(InFlight) = 1
    /\ Cardinality(RecordedFor("suno-v3.5")) = 3

-----------------------------------------------------------------------------
(* Claims on the monitoring loop, under SpecTicker *)

\* A step in which the callback of an interval has run
IsTick == ret'.op = "timer" /\ timers' # timers

\* C24: while monitoring is started and not stopped, every timer tick first
\* appends exactly one snapshot and then runs the alerting on a history that
\* already contains it; under a fair timer a new snapshot is eventually
\* captured again and again, for as long as monitoring is not stopped.
C24_TickCapturesThenAlerts ==
    /\ [][(IsTick /\ monitorInterval # NULL)
             => /\ Len(snapshots') = Len(snapshots) + 1
                /\ Front(snapshots') = snapshots
                /\ warnings' = analyseAndAdapt(snapshots', modelMetrics)]_vars
    /\ \A n \in 0..(MaxTickerSnaps - 1) :
          (monitorInterval # NULL /\ Len(snapshots) = n)
              ~> (Len(snapshots) > n \/ monitorInterval = NULL)

\* The third tick of a running monitor has raised the CPU warning, which
\* takes the third snapshot to be in the history analysed
C24_Witness ==
    /\ monitorInterval # NULL
    /\ ret.op = "timer"
    /\ Len(snapshots) = MIN_RECENT
    /\ "HIGH CPU" \in Kinds(warnings)

-----------------------------------------------------------------------------
(* Claims on the snapshots in history *)

\* C25: a snapshot is immutable once captured.  Whatever the engine does
\* next, the snapshots in history stay as they are, field by field; the
\* history changes only by a new snapshot at its end and, at capacity, by
\* the eviction of the oldest.
C25_SnapshotsImmutable ==
    [][\/ snapshots' = snapshots
       \/ Front(snapshots') = snapshots
       \/ /\ Len(snapshots) = MAX_SNAPSHOTS
          /\ Front(snapshots') = Tail(snapshots)]_vars

\* A snapshot taken before any model call is in history next to a later one
\* with a success rate, and a request has started since
C25_Witness ==
    /\ Len(snapshots) = 2
    /\ snapshots[1].modelSuccessRates # snapshots[2].modelSuccessRates
    /\ snapshots[2].activeRequests = 0
    /\ activeRequests = 1

-----------------------------------------------------------------------------
(* Claims on the router's effects *)

\* C26: getBestModel has no side effects.  A call leaves the model metrics
\* and every other field of the engine as they were, so a second call for
\* the same category, with nothing recorded in between, returns the same
\* model.
C26_RouterReadOnly ==
    /\ [][ret'.op = "getBestModel"
             => UNCHANGED <<engine, timers, nextTimerId, now>>]_vars
    /\ [](Returned("getBestModel") => getBestModel(ret.arg) = ret.val)

\* The router has answered for music with a model other than the first of
\* the list, on recorded calls of two candidates
C26_Witness ==
    /\ Returned("getBestModel")
    /\ ret.arg = "music"
    /\ ret.val = "eleven-music-v2"
    /\ Calls("suno-v3.5") > 0

-----------------------------------------------------------------------------
(* Claims on what the router's answer depends on, under SpecIsolation *)

\* A step that records a call of a candidate of the category
RecordsCandidate(taskType) ==
    /\ ret'.op = "trackModelCall"
    /\ ret'.arg.model \in Candidates(taskType)

\* C27: the answer of getBestModel for a category depends only on the
\* recorded metrics of the category's own candidates.  A step that records
\* a call of any other model, or that starts or ends a request or captures
\* a snapshot, leaves the answer for the category as it was.
C27_OnlyOwnCandidatesCount ==
    [][\A t \in Tasks :
          RecordsCandidate(t) \/ getBestModel(t)' = getBestModel(t)]_vars

\* The router prefers the second music candidate on the recorded calls, and
\* calls of a video candidate and of an unlisted model have been recorded
C27_Witness ==
    /\ getBestModel("music") = "eleven-music-v2"
    /\ Calls("kling-3.0") > 0
    /\ Calls("custom-model") > 0

-----------------------------------------------------------------------------
(* Claims on the retry loop of the generation services, under SpecGenerate *)

\* What holds of a generation at every moment: no attempt follows a
\* successful one, the i-th wait is i times the service's unit, and a wait
\* follows each failed attempt but the last
RetryLoopShape ==
    /\ Len(gen.calls) <= RETRY_ATTEMPTS
    /\ \A i \in 1..(Len(gen.calls) - 1) : ~gen.calls[i].ok
    /\ \A i \in 1..Len(gen.waits) :
          gen.waits[i] = i * (IF gen.service = "music" THEN 1000 ELSE 2000)
    /\ gen.pc \in {"calling", "waiting"}
          => /\ Len(gen.waits) = Len(gen.calls)
             /\ Len(gen.waits) < RETRY_ATTEMPTS
    /\ gen.pc = "returned"
          => /\ Last(gen.calls).ok
             /\ gen.result = Last(gen.calls).provider
             /\ Len(gen.waits) = Len(gen.calls) - 1
    /\ gen.pc = "thrown"
          => /\ Len(gen.calls) = 3
             /\ ~Last(gen.calls).ok
             /\ Len(gen.waits) = 2
             /\ gen.error = "failed after 3 attempts"

\* C28: generateMusic and generateVideo make at most 3 attempts; they
\* return the result of the first successful attempt without attempting
\* again, wait attempt x 1000 ms (music) or attempt x 2000 ms (video)
\* between attempts only, not after the last, and throw 'failed after 3
\* attempts' once the third attempt fails; a call whose API calls all
\* settle terminates.
C28_BoundedRetry ==
    /\ []RetryLoopShape
    /\ (gen.pc \in {"calling", "waiting"}) ~> Finished

\* A video generation has thrown after waits of 2 and 4 seconds
C28_Witness ==
    /\ gen.pc = "thrown"
    /\ gen.service = "video"
    /\ gen.waits = <<2000, 4000>>
    /\ Len(gen.calls) = 3

-----------------------------------------------------------------------------
(* Claims on the error boundary, under SpecBoundary *)

\* A step within the life of one component, the page not reloaded
SameLife == boundary'.life = boundary.life

\* C29: retryCount stays within 0..3 and never decreases while the
\* component lives.  A retry clears the error and adds one to retryCount,
\* and does so only when retryCount is below 3; at 3 the page is reloaded
\* instead.  Catching a new error leaves retryCount as it is.
C29_RetryCountBounded ==
    /\ [](boundary.retryCount \in 0..3)
    /\ [][/\ SameLife => boundary'.retryCount >= boundary.retryCount
          /\ (SameLife /\ boundary.hasError /\ ~boundary'.hasError)
                => /\ boundary.retryCount < 3
                   /\ boundary'.retryCount = boundary.retryCount + 1
                   /\ boundary'.error = "null"
                   /\ boundary'.errorInfo = "null"
          /\ (boundary.hasError /\ boundary.retryCount = 3) => ~SameLife
          /\ (~boundary.hasError /\ boundary'.hasError)
                => boundary'.retryCount = boundary.retryCount]_vars

\* The component has caught a fourth error after three retries
C29_Witness ==
    /\ boundary.hasError
    /\ boundary.retryCount = 3
    /\ Len(boundary.errorLog) = 4

-----------------------------------------------------------------------------
(* Claims on the API client, under SpecClient *)

\* C30: a request that receives a 401 is sent again at most once, and only
\* after a refresh that succeeded with a stored token.  When the refresh
\* fails, the stored token is removed, the location becomes /login and the
\* promise rejects with the original error.  A 401 on the request sent
\* again rejects without another refresh, so no request loops.
C30_ResentAtMostOnce ==
    /\ [](client.sends <= 2 /\ client.refreshes <= 1)
    /\ [][/\ client'.sends = client.sends + 1 /\ client.sends >= 1
               => /\ client.pc = "refreshing"
                  /\ client.token # NO_TOKEN
                  /\ client'.token \notin {NO_TOKEN, client.token}
                  /\ client'.authorization = client'.token
          /\ (client.pc = "refreshing" /\ client'.pc = "rejected")
               => /\ client'.token = NO_TOKEN
                  /\ client'.location = "/login"
                  /\ client'.error = [status |-> 401, send |-> 1]
          /\ (client.pc = "resent" /\ client'.pc # "resent")
               => /\ client'.pc \in {"resolved", "rejected"}
                  /\ client'.refreshes = client.refreshes
                  /\ client'.token = client.token
                  /\ client'.location = client.location]_vars

\* The request sent again after a refresh was answered 401 again and has
\* been rejected with that second error
C30_Witness ==
    /\ client.pc = "rejected"
    /\ client.sends = 2
    /\ client.refreshes = 1
    /\ client.error = [status |-> 401, send |-> 2]
    /\ client.location = "/"

====
